---- MODULE Spec2Model ----
\* A model of trunk/InfoProviders/Bloomberg.py: one call of bdp (reference
\* request) or bdh (historical request) against a vendor session whose
\* behaviour (failures, the events it delivers and their payloads) is the
\* environment.
EXTENDS Integers, Sequences, FiniteSets, TLC

\* ---------------------------------------------------------------------------
\* Event type codes (Bloomberg.py lines 23-37)
\* ---------------------------------------------------------------------------
UNKNOWN == -1
ADMIN == 1
SESSION_STATUS == 2
SUBSCRIPTION_STATUS == 3
REQUEST_STATUS == 4
RESPONSE == 5
PARTIAL_RESPONSE == 6
SUBSCRIPTION_DATA == 8
BLPSERVICE_STATUS == 9
TIMEOUT == 10
AUTHORIZATION_STATUS == 11
RESOLUTION_STATUS == 12
PUBLISHING_DATA == 13
TOPIC_STATUS == 14
TOKEN_STATUS == 15

EventTypes ==
    {UNKNOWN, ADMIN, SESSION_STATUS, SUBSCRIPTION_STATUS, REQUEST_STATUS,
     RESPONSE, PARTIAL_RESPONSE, SUBSCRIPTION_DATA, BLPSERVICE_STATUS, TIMEOUT,
     AUTHORIZATION_STATUS, RESOLUTION_STATUS, PUBLISHING_DATA, TOPIC_STATUS,
     TOKEN_STATUS}

\* ---------------------------------------------------------------------------
\* Bounds of the model and the universes the inputs are drawn from
\* ---------------------------------------------------------------------------
\* securities carried by one reference message
MaxEntries == 2
\* field-data rows carried by one historical message
MaxRows == 2
\* messages carried by one event
MaxMsgs == 2
\* PARTIAL_RESPONSE events whose payload bdh extracts before the RESPONSE
MaxPartials == 1

Securities == {"s1", "s2"}
Fields == {"f1", "f2"}
Values == {"a", "b"}
\* the historical payloads range over one field, one value and two dates
HistFields == {"f1"}
HistValues == {"a"}
Dates == {1, 2}

\* the arguments of a call
SecLists == {<<"s1">>, <<"s1", "s2">>}
FldLists == {<<"f1">>, <<"f1", "f2">>}
DateRanges == {<<1, 2>>, <<1, 1>>}
NoDate == "none"

\* ---------------------------------------------------------------------------
\* Mappings (python dicts) as functions with a finite domain
\* ---------------------------------------------------------------------------
EmptyMap == <<>>

Put(m, k, v) == [x \in (DOMAIN m) \cup {k} |-> IF x = k THEN v ELSE m[x]]

PartialMaps(D, V) == UNION {[S -> V] : S \in SUBSET D}

SeqsUpTo(S, n) == UNION {[1..k -> S] : k \in 0..n}

Range(s) == {s[i] : i \in DOMAIN s}

\* ---------------------------------------------------------------------------
\* What the session can deliver
\* ---------------------------------------------------------------------------
\* one value of securityData in a reference response: a security and its
\* fieldData elements (name -> value)
RefEntries == [security : Securities, fieldData : PartialMaps(Fields, Values)]

RefMessages ==
    [hasSecurityData : {TRUE}, securityData : SeqsUpTo(RefEntries, MaxEntries)]

\* one value of fieldData in a historical response: element 0 is the date, the
\* elements after it are the fields
HistRows == [date : Dates, flds : PartialMaps(HistFields, HistValues)]

HistMessages ==
    [hasSecurityData : {TRUE},
     securityData : [security : Securities,
                     fieldData : SeqsUpTo(HistRows, MaxRows)]]

\* a message without a securityData element (a status message, a responseError)
StatusMessage == [hasSecurityData |-> FALSE]

DataMessages(k) == IF k = "bdp" THEN RefMessages ELSE HistMessages

\* the messages that may follow the first one of an event
ExtraMessages(k) ==
    IF k = "bdp"
    THEN {[hasSecurityData |-> TRUE,
           securityData |-> <<[security |-> "s2",
                               fieldData |-> [f \in Fields |-> "b"]]>>]}
    ELSE {[hasSecurityData |-> TRUE,
           securityData |-> [security |-> "s2",
                             fieldData |-> <<[date |-> 2,
                                              flds |-> [f \in HistFields |-> "a"]]>>]]}

NoEvent == [EventType |-> UNKNOWN, msgs |-> <<>>]

VARIABLES
    kind,          \* "bdp" or "bdh"
    sec_list, fld_list, start_date, end_date,   \* the arguments
    pc,            \* the statement the call is at
    req,           \* the request object
    loop, response, data,                       \* locals of bdp / bdh
    event,         \* the event fetched by the current iteration of the loop
    outcome,       \* "running", "returned", "BloombergError", "error"
    session,       \* what the session object has been asked to do
    partials       \* PARTIAL_RESPONSE payloads extracted so far

vars == <<kind, sec_list, fld_list, start_date, end_date, pc, req, loop,
          response, event, data, outcome, session, partials>>

args == <<kind, sec_list, fld_list, start_date, end_date>>

NoTable == [shape |-> "none"]

NoRequest == [operation |-> "none"]

Init ==
    /\ kind \in {"bdp", "bdh"}
    /\ sec_list \in SecLists
    /\ fld_list \in FldLists
    /\ \E r \in DateRanges :
          /\ start_date = (IF kind = "bdh" THEN r[1] ELSE NoDate)
          /\ end_date = (IF kind = "bdh" THEN r[2] ELSE NoDate)
    /\ pc = "Start"
    /\ req = NoRequest
    /\ loop = FALSE
    /\ response = EmptyMap
    /\ event = NoEvent
    /\ data = NoTable
    /\ outcome = "running"
    /\ session = [started |-> FALSE, opened |-> FALSE, sent |-> 0, stops |-> 0,
                  last |-> "CreateObject", afterStop |-> FALSE,
                  gotResponse |-> FALSE]
    /\ partials = 0

\* the session records one more operation
Called(op) ==
    [session EXCEPT !.last = op,
                    !.afterStop = (session.afterStop \/ session.stops > 0)]

\* an exception leaves the try block: control goes to the finally clause
Raise(err) ==
    /\ pc' = "finally"
    /\ outcome' = err

\* ---------------------------------------------------------------------------
\* Opening the session and building the request
\* ---------------------------------------------------------------------------
Start ==
    /\ pc = "Start"
    /\ \/ /\ session' = [Called("Start") EXCEPT !.started = TRUE]
          /\ pc' = "OpenService"
          /\ UNCHANGED outcome
       \/ /\ session' = Called("Start")
          /\ Raise("error")
    /\ UNCHANGED <<args, req, loop, response, event, data, partials>>

OpenService ==
    /\ pc = "OpenService"
    /\ \/ /\ session' = [Called("OpenService") EXCEPT !.opened = TRUE]
          /\ pc' = "GetService"
          /\ UNCHANGED outcome
       \/ /\ session' = Called("OpenService")
          /\ Raise("error")
    /\ UNCHANGED <<args, req, loop, response, event, data, partials>>

GetService ==
    /\ pc = "GetService"
    /\ session' = Called("GetService")
    /\ \/ /\ pc' = "CreateRequest"
          /\ UNCHANGED outcome
       \/ Raise("error")
    /\ UNCHANGED <<args, req, loop, response, event, data, partials>>

BuildRequest ==
    IF kind = "bdp"
    THEN [operation |-> "ReferenceDataRequest",
          securities |-> sec_list, fields |-> fld_list]
    ELSE [operation |-> "HistoricalDataRequest",
          securities |-> sec_list, fields |-> fld_list,
          periodicitySelection |-> "DAILY",
          startDate |-> start_date, endDate |-> end_date]

CreateRequest ==
    /\ pc = "CreateRequest"
    /\ session' = Called("CreateRequest")
    /\ \/ /\ req' = BuildRequest
          /\ pc' = "SendRequest"
          /\ UNCHANGED outcome
       \/ /\ Raise("error")
          /\ UNCHANGED req
    /\ UNCHANGED <<args, loop, response, event, data, partials>>

\* fault variant of SendRequest: the request is sent a second time
SendRequestResends ==
    /\ pc = "SendRequest"
    /\ session' = [Called("SendRequest") EXCEPT !.sent = @ + 2]
    /\ loop' = TRUE
    /\ response' = EmptyMap
    /\ pc' = "while"
    /\ UNCHANGED <<args, req, event, data, partials, outcome>>

SendRequest ==
    /\ pc = "SendRequest"
    /\ \/ /\ session' = [Called("SendRequest") EXCEPT !.sent = @ + 1]
          /\ loop' = TRUE
          /\ response' = EmptyMap
          /\ pc' = "while"
          /\ UNCHANGED outcome
       \/ /\ session' = Called("SendRequest")
          /\ Raise("error")
          /\ UNCHANGED <<loop, response>>
    /\ UNCHANGED <<args, req, event, data, partials>>

\* ---------------------------------------------------------------------------
\* The poll loop
\* ---------------------------------------------------------------------------
FirstMessages(k, t) ==
    IF t \in {RESPONSE, PARTIAL_RESPONSE}
    THEN DataMessages(k) \cup {StatusMessage}
    ELSE {StatusMessage}

\* session.NextEvent(): the session delivers any event, or fails
NextEvent ==
    /\ pc = "while"
    /\ loop
    /\ \/ \E t \in EventTypes :
            \E first \in FirstMessages(kind, t) :
              \E rest \in SeqsUpTo(ExtraMessages(kind), MaxMsgs - 1) :
                /\ (kind = "bdh" /\ t = PARTIAL_RESPONSE) => partials < MaxPartials
                /\ event' = [EventType |-> t, msgs |-> <<first>> \o rest]
                /\ session' = [Called("NextEvent") EXCEPT
                                 !.gotResponse = (@ \/ t = RESPONSE)]
                /\ pc' = "message"
                /\ UNCHANGED outcome
       \/ /\ session' = Called("NextEvent")
          /\ Raise("error")
          /\ UNCHANGED event
    /\ UNCHANGED <<args, req, loop, response, data, partials>>

\* fault variant of FirstMessage: the iterator is run to its last message
LastMessage(ev) == ev.msgs[Len(ev.msgs)]

\* iterator.Next(); message = iterator.Message
FirstMessage(ev) == ev.msgs[1]

\* fault variant of IsPayload: bdp tests the event type as bdh does
IsPayloadAnyResponse(k, t) == t = RESPONSE \/ t = PARTIAL_RESPONSE

\* the event types whose message is walked
IsPayload(k, t) ==
    IF k = "bdp" THEN t = RESPONSE ELSE t = RESPONSE \/ t = PARTIAL_RESPONSE

\* fault variant of IsTerminal: a PARTIAL_RESPONSE ends the loop too
IsTerminalOnAnyResponse(k, t) == t = RESPONSE \/ t = PARTIAL_RESPONSE

\* the event types that end the loop
IsTerminal(k, t) == t = RESPONSE

\* response[name][field.Name] = field.Value for each element of fieldData
CopyFields(fieldData) == [f \in DOMAIN fieldData |-> fieldData[f]]

RECURSIVE ExtractSecurities(_, _, _)
ExtractSecurities(resp, securityData, i) ==
    IF i > Len(securityData)
    THEN resp
    ELSE ExtractSecurities(
             Put(resp, securityData[i].security,
                 CopyFields(securityData[i].fieldData)),
             securityData, i + 1)

\* fault variant of ExtractBdp: range(num_securities - 1)
ExtractBdpSkipsLast(resp, message) ==
    ExtractSecurities(
        resp,
        SubSeq(message.securityData, 1, Len(message.securityData) - 1), 1)

ExtractBdp(resp, message) == ExtractSecurities(resp, message.securityData, 1)

\* fault variant of RowDate: the row is filed under the request's end date
RowDateFromRequest(row) == end_date

\* date = fields.GetElement(0).Value
RowDate(row) == row.date

\* one value of fieldData: response[name][field.Name][date] = field.Value
AddRow(byField, row) ==
    [f \in (DOMAIN byField) \cup (DOMAIN row.flds) |->
        IF f \in DOMAIN row.flds
        THEN Put(IF f \in DOMAIN byField THEN byField[f] ELSE EmptyMap,
                 RowDate(row), row.flds[f])
        ELSE byField[f]]

RECURSIVE AddRows(_, _, _)
AddRows(byField, fieldData, i) ==
    IF i > Len(fieldData)
    THEN byField
    ELSE AddRows(AddRow(byField, fieldData[i]), fieldData, i + 1)

ExtractBdh(resp, message) ==
    Put(resp, message.securityData.security,
        AddRows(EmptyMap, message.securityData.fieldData, 1))

Extract(k, resp, message) ==
    IF k = "bdp" THEN ExtractBdp(resp, message) ELSE ExtractBdh(resp, message)

\* what one iteration of the loop does with the event it fetched: whether the
\* walk of the message raises, and the response mapping and loop flag it leaves
Iteration(k, resp, lp, ev) ==
    LET t == ev.EventType
        message == FirstMessage(ev)
    IN  IF IsPayload(k, t) /\ ~message.hasSecurityData
        THEN [raised |-> TRUE, response |-> resp, loop |-> lp]
        ELSE [raised |-> FALSE,
              response |-> (IF IsPayload(k, t)
                            THEN Extract(k, resp, message) ELSE resp),
              loop |-> (IF IsTerminal(k, t) THEN FALSE ELSE lp)]

\* the rest of one iteration of the loop, from the message iterator on; the
\* event and message handles are dead once the iteration ends
ProcessEvent ==
    /\ pc = "message"
    /\ LET r == Iteration(kind, response, loop, event)
       IN  IF r.raised
           THEN /\ Raise("error")
                /\ UNCHANGED <<response, loop, partials>>
           ELSE /\ response' = r.response
                /\ loop' = r.loop
                /\ partials' = (IF kind = "bdh" /\ event.EventType = PARTIAL_RESPONSE
                                THEN partials + 1 ELSE partials)
                /\ pc' = "while"
                /\ UNCHANGED outcome
    /\ event' = NoEvent
    /\ UNCHANGED <<args, req, data, session>>

\* ---------------------------------------------------------------------------
\* Assembling the table
\* ---------------------------------------------------------------------------
\* pan.Series(d)
Series(d) == [k \in DOMAIN d |-> d[k]]

\* pan.DataFrame(dict of Series): one column per key, indexed by the union of
\* the Series' indexes
DataFrame(d) ==
    [shape |-> "DataFrame",
     columns |-> DOMAIN d,
     index |-> UNION {DOMAIN d[c] : c \in DOMAIN d},
     at |-> [c \in DOMAIN d |-> d[c]]]

\* fault variant of DataFrameTruth: only the columns are looked at
DataFrameTruthColumnsOnly(df) == df.columns # {}

\* the truth value of a DataFrame
DataFrameTruth(df) == df.columns # {} /\ df.index # {}

\* pan.Panel(dict of DataFrames): one item per key, the frames aligned on the
\* union of their indexes (major axis) and of their columns (minor axis)
Panel(d) ==
    [shape |-> "Panel",
     items |-> DOMAIN d,
     major_axis |-> UNION {d[i].index : i \in DOMAIN d},
     minor_axis |-> UNION {d[i].columns : i \in DOMAIN d},
     at |-> [i \in DOMAIN d |-> d[i].at]]

\* data[item]: the item's frame on the panel's axes
PanelItem(p, i) ==
    [shape |-> "DataFrame",
     columns |-> p.minor_axis,
     index |-> p.major_axis,
     at |-> p.at[i]]

AssembleBdp(resp) == DataFrame([r \in DOMAIN resp |-> Series(resp[r])])

AssembleBdh(resp) ==
    Panel([r \in DOMAIN resp |->
              DataFrame([f \in DOMAIN resp[r] |-> Series(resp[r][f])])])

\* the statements after the loop, up to the return or the raise
Assemble ==
    /\ pc = "while"
    /\ ~loop
    /\ pc' = "finally"
    /\ IF kind = "bdp"
       THEN LET df == AssembleBdp(response)
            IN  /\ data' = df
                /\ outcome' = (IF DataFrameTruth(df)
                               THEN "returned" ELSE "BloombergError")
       ELSE LET p == AssembleBdh(response)
            IN  /\ data' = p
                /\ outcome' =
                     (IF p.items = {}
                      THEN "error"
                      ELSE IF DataFrameTruth(
                                  PanelItem(p, CHOOSE i \in p.items : TRUE))
                           THEN "returned" ELSE "BloombergError")
    /\ UNCHANGED <<args, req, loop, response, event, session, partials>>

\* fault variant of Finally: Stop sits at the end of the try block, so an
\* error other than BloombergError skips it
FinallySkipsStopOnError ==
    /\ pc = "finally"
    /\ session' = (IF outcome = "error"
                   THEN session
                   ELSE [Called("Stop") EXCEPT !.stops = @ + 1])
    /\ event' = NoEvent
    /\ pc' = "done"
    /\ UNCHANGED <<args, req, loop, response, data, outcome, partials>>

\* the finally clause
Finally ==
    /\ pc = "finally"
    /\ session' = [Called("Stop") EXCEPT !.stops = @ + 1]
    /\ event' = NoEvent
    /\ pc' = "done"
    /\ UNCHANGED <<args, req, loop, response, data, outcome, partials>>

Next ==
    \/ Start
    \/ OpenService
    \/ GetService
    \/ CreateRequest
    \/ SendRequest
    \/ NextEvent
    \/ ProcessEvent
    \/ Assemble
    \/ Finally

Spec == Init /\ [][Next]_vars

\* the statements the call runs by itself: everything but the wait for the
\* session to deliver an event
OwnStep ==
    \/ Start
    \/ OpenService
    \/ GetService
    \/ CreateRequest
    \/ SendRequest
    \/ ProcessEvent
    \/ Assemble
    \/ Finally

\* the call keeps running its own statements; only the session decides
\* whether NextEvent delivers
LiveSpec == Spec /\ WF_vars(OwnStep)

\* ---------------------------------------------------------------------------
\* Properties
\* ---------------------------------------------------------------------------
Finished == pc = "done"

\* the loop ran and ended by its flag
LoopEnded == session.sent > 0 /\ ~loop

\* C1: every call that finishes, whether it returns, raises BloombergError or
\* fails with another error at any step, has invoked session.Stop() exactly
\* once, and no session operation follows the Stop.
C1_StopExactlyOnce ==
    /\ Finished => session.stops = 1
    /\ ~Finished => session.stops = 0
    /\ ~session.afterStop

\* a call that failed while walking the message of a RESPONSE event has finished
C1_Witness ==
    /\ Finished
    /\ outcome = "error"
    /\ session.gotResponse
    /\ session.stops = 1

NoValues(resp) == \A s \in DOMAIN resp : DOMAIN resp[s] = {}

\* C3: when the loop has ended with an empty assembled result (no securities,
\* or securities without field values), the call raises BloombergError: it
\* neither returns a table nor fails with another error.
C3_EmptyRaisesBloombergError ==
    (pc \in {"finally", "done"} /\ LoopEnded /\ NoValues(response))
        => outcome = "BloombergError"

\* a RESPONSE that carried securities without field values ended in the error
C3_Witness ==
    /\ Finished
    /\ LoopEnded
    /\ DOMAIN response # {}
    /\ NoValues(response)
    /\ outcome = "BloombergError"

\* the securities named in a securityData array, and the last entry of each
SecurityNames(sd) == {sd[i].security : i \in DOMAIN sd}

LastEntry(sd, n) ==
    sd[CHOOSE i \in DOMAIN sd :
          /\ sd[i].security = n
          /\ \A j \in DOMAIN sd : sd[j].security = n => j <= i]

\* C4 as stated: a table returned by bdp has the requested securities as its
\* columns and the requested fields as its rows.
C4_TableMatchesRequest ==
    (kind = "bdp" /\ outcome = "returned")
        => /\ data.columns = Range(sec_list)
           /\ data.index = Range(fld_list)

\* C4 amended: a table returned by bdp has as columns the securities carried by
\* the first message of the RESPONSE event, as rows the fields carried for
\* them (by the last entry of a security that occurs twice), and in each cell
\* the value that entry carried; the requested lists do not constrain it.
C4_TableMatchesResponse ==
    /\ [][(kind = "bdp" /\ pc = "message" /\ pc' = "while"
             /\ event.EventType = RESPONSE)
            => LET sd == event.msgs[1].securityData
               IN  response' = [n \in SecurityNames(sd) |->
                                   LastEntry(sd, n).fieldData]]_vars
    /\ []((kind = "bdp" /\ outcome = "returned")
            => /\ data.columns = DOMAIN response
               /\ data.index = UNION {DOMAIN response[c] : c \in DOMAIN response}
               /\ \A c \in DOMAIN response :
                     \A r \in DOMAIN response[c] :
                        data.at[c][r] = response[c][r])

\* bdp returned a table of two securities by two fields
C4_Witness ==
    /\ kind = "bdp"
    /\ outcome = "returned"
    /\ Cardinality(data.columns) = 2
    /\ Cardinality(data.index) = 2

\* C5: in bdh every value extracted from an earlier PARTIAL_RESPONSE or RESPONSE
\* event is still in the response mapping after a later one is processed, also
\* when both name the same security.
C5_EarlierValuesKept ==
    [][(kind = "bdh" /\ pc = "message" /\ pc' = "while")
         => \A s \in DOMAIN response :
               /\ s \in DOMAIN response'
               /\ \A f \in DOMAIN response[s] :
                     /\ f \in DOMAIN response'[s]
                     /\ \A d \in DOMAIN response[s][f] :
                           d \in DOMAIN response'[s][f]]_vars

\* C6: an event that is no RESPONSE (bdp), or neither RESPONSE nor
\* PARTIAL_RESPONSE (bdh), leaves the response mapping and the loop flag as
\* they were.
C6_OtherEventsChangeNothing ==
    [][(/\ pc = "message"
        /\ \/ kind = "bdp" /\ event.EventType # RESPONSE
           \/ kind = "bdh" /\ event.EventType \notin {RESPONSE, PARTIAL_RESPONSE})
         => (response' = response /\ loop' = loop)]_vars

\* bdp is about to process a PARTIAL_RESPONSE whose first message carries data
C6_Witness ==
    /\ kind = "bdp"
    /\ pc = "message"
    /\ event.EventType = PARTIAL_RESPONSE
    /\ event.msgs[1].hasSecurityData
    /\ event.msgs[1].securityData # <<>>

\* the dates under which the response mapping holds a value
DatesOf(resp) ==
    UNION {UNION {DOMAIN resp[s][f] : f \in DOMAIN resp[s]} : s \in DOMAIN resp}

\* C7 as stated: every date on the date axis of a structure returned by bdh lies
\* in [start_date, end_date].
C7_DatesWithinRequest ==
    (kind = "bdh" /\ outcome = "returned")
        => \A d \in data.major_axis : start_date <= d /\ d <= end_date

\* C7 amended: every date on the date axis of a structure returned by bdh is the
\* date of a fieldData row in the first message of a RESPONSE or
\* PARTIAL_RESPONSE event the loop processed; no date is compared with
\* start_date or end_date.
C7_DatesAreDeliveredDates ==
    /\ [][(kind = "bdh" /\ pc = "message" /\ pc' = "while")
            => DatesOf(response') \subseteq
                 DatesOf(response) \cup
                   (IF event.EventType \in {RESPONSE, PARTIAL_RESPONSE}
                    THEN {row.date :
                            row \in Range(event.msgs[1].securityData.fieldData)}
                    ELSE {})]_vars
    /\ []((kind = "bdh" /\ outcome = "returned")
            => data.major_axis = DatesOf(response))

\* bdh returned a structure holding a date after end_date
C7_Witness ==
    /\ kind = "bdh"
    /\ outcome = "returned"
    /\ \E d \in data.major_axis : d > end_date

\* C8 as stated (second half): while no RESPONSE event has been delivered the
\* call has not finished and Stop has not been invoked.
C8_NoResponseNeverFinishes ==
    ~session.gotResponse => (~Finished /\ session.stops = 0)

\* C8 amended: once a RESPONSE event is delivered the call finishes with the
\* session stopped; without one the call neither returns nor raises
\* BloombergError, and finishes (and stops the session) only when a session
\* operation or the walk of a message raised.
C8_ResponseEndsCall ==
    /\ session.gotResponse ~> (Finished /\ session.stops = 1)
    /\ [](~session.gotResponse => outcome \in {"running", "error"})
    /\ []((~session.gotResponse /\ session.stops > 0) => outcome = "error")

\* the call finished by an error although only other events were delivered
C8_Witness ==
    /\ Finished
    /\ ~session.gotResponse
    /\ session.last = "Stop"
    /\ partials >= 1

\* the event reduced to its first message
FirstOnly(ev) == [ev EXCEPT !.msgs = <<ev.msgs[1]>>]

\* C9: an iteration of the loop does with an event of several messages what it
\* does with the same event carrying only the first of them.
C9_OnlyFirstMessageCounts ==
    pc = "message"
        => Iteration(kind, response, loop, event)
             = Iteration(kind, response, loop, FirstOnly(event))

\* a response event whose second message differs from its first is processed
C9_Witness ==
    /\ pc = "message"
    /\ event.EventType = RESPONSE
    /\ Len(event.msgs) > 1
    /\ event.msgs[1].hasSecurityData
    /\ event.msgs[1] # event.msgs[2]

\* the order in which one operation may follow another
OpOrder ==
    {<<"CreateObject", "Start">>, <<"Start", "OpenService">>,
     <<"OpenService", "GetService">>, <<"GetService", "CreateRequest">>,
     <<"CreateRequest", "SendRequest">>, <<"SendRequest", "NextEvent">>}
    \cup {<<op, "Stop">> : op \in {"Start", "OpenService", "GetService",
                                   "CreateRequest", "SendRequest", "NextEvent"}}

\* C10 as stated: every call sends exactly one request.
C10_ExactlyOneRequest == Finished => session.sent = 1

\* C10 amended: the operations of a call are a prefix of Start, OpenService,
\* GetService, CreateRequest, SendRequest, NextEvent (repeated), followed by
\* Stop; at most one request is sent, and exactly one in every call that
\* reaches the loop; NextEvent is called only after Start, OpenService and
\* SendRequest completed, before any RESPONSE was fetched and before Stop.
C10_OperationOrder ==
    /\ [][session.last' # session.last
            => <<session.last, session.last'>> \in OpOrder]_vars
    /\ [](session.sent <= 1)
    /\ [](pc \in {"while", "message"}
            => /\ session.sent = 1
               /\ session.started
               /\ session.opened
               /\ session.stops = 0)
    /\ []((pc = "while" /\ loop) => ~session.gotResponse)
    /\ [](session.gotResponse => session.sent = 1)

\* a call that went through the whole order and stopped the session
C10_Witness ==
    /\ Finished
    /\ session.last = "Stop"
    /\ session.sent = 1
    /\ session.gotResponse
    /\ outcome = "returned"

====
